---- MODULE Spec2Model ----
(***************************************************************************)
(* A model of the Twitter MCP server: the express application (JSON body   *)
(* parser, x-api-key gate, routes), the tool handlers registered on the    *)
(* McpServer, and the upstream Twitter client they call.                   *)
(*                                                                         *)
(* The repository holds three builds of the server, and the model runs     *)
(* whichever one was deployed (variable variant):                          *)
(*   "strict"  src/src/server.ts start() with the client of                *)
(*             src/src/twitterClient.ts (raw JSON passed through);         *)
(*   "loose"   createHttpApp/buildMcpServer (src/unnamed/part_002) with    *)
(*             the TwitterClient class of src/src/server.ts:284-445;       *)
(*   "legacy"  src/unnamed/part_000 with twitter.js (src/unnamed/part_001).*)
(*                                                                         *)
(* Strings the code only compares or concatenates are sequences of tokens: *)
(* a fixed phrase is one token, a number is written digit by digit, so     *)
(* that String.prototype.includes is a search for a contiguous run.        *)
(***************************************************************************)
EXTENDS Integers, Sequences, FiniteSets, TLC

VARIABLES
    variant,   \* the build that is running
    apiKey,    \* config.mcpServerApiKey ("" when not configured)
    req,       \* the HTTP request being handled
    res,       \* the HTTP response written for it
    handled,   \* transport.handleRequest was invoked for req
    pc,        \* position of the tool handler
    tool,      \* name of the tool being called
    args,      \* the arguments of the call, as the client sent them
    calls,     \* upstream requests issued by this invocation, in order
    replies,   \* upstream responses received by this invocation, in order
    result,    \* what the handler ended with
    tokenSet,  \* process.env.TWITTER_BEARER_TOKEN is set
    env,       \* process.env: PORT, TWITTER_BEARER_TOKEN, MCP_SERVER_API_KEY, TWITTER_API_BASE_URL
    phase,     \* "boot", then "listening" or "exited"
    port,      \* config.port
    baseUrl,   \* the upstream base URL the client was built with
    startupError,  \* message of the error that ended the startup
    binding,   \* the transport the McpServer is connected to
    others,    \* further POST /mcp requests in flight
    overwrites,  \* responses begun on a res whose headers were already sent
    failure    \* whether transport.handleRequest rejected: "none", "early", "late"

vars == <<variant, apiKey, req, res, handled, pc, tool, args, calls, replies, result,
          tokenSet, env, phase, port, baseUrl, startupError, binding, others,
          overwrites, failure>>

(***************************************************************************)
(* Bounds of the model.                                                    *)
(***************************************************************************)
MaxTweets == 2      \* posts in one upstream response
MaxOver == 3
\* at most this many further requests are in flight beside the one followed
MaxOthers == 1        \* how far past the truncation bound a post text goes

(***************************************************************************)
(* Token strings.                                                          *)
(***************************************************************************)
\* String(n) for a natural number, one token per digit
RECURSIVE Digits(_)
Digits(n) ==
    IF n < 10 THEN <<(<<"0","1","2","3","4","5","6","7","8","9">>)[n + 1]>>
    ELSE Digits(n \div 10) \o Digits(n % 10)

\* haystack.includes(needle)
Includes(haystack, needle) ==
    \E i \in 0..(Len(haystack) - Len(needle)) :
        \A j \in 1..Len(needle) : haystack[i + j] = needle[j]

EndsWith(s, suffix) ==
    /\ Len(s) >= Len(suffix)
    /\ \A j \in 1..Len(suffix) : s[Len(s) - Len(suffix) + j] = suffix[j]

LowerTok(t) ==
    CASE t = "Not Found" -> "not found"
      [] t = "Not Found Error" -> "not found error"
      [] t = "User " -> "user "
      [] t = "Tweet " -> "tweet "
      [] OTHER -> t

\* message.toLowerCase()
ToLower(s) == [i \in 1..Len(s) |-> LowerTok(s[i])]

(***************************************************************************)
(* Upstream data.  Undef stands for JavaScript's undefined in a field      *)
(* typed as a string.                                                      *)
(***************************************************************************)
Undef == "<undefined>"

\* encodeURIComponent(x) / template interpolation of a possibly undefined value
Interp(x) == IF x = Undef THEN "undefined" ELSE x

TruncBound == 560
TruncKeep == 557
Ellipsis == <<".", ".", ".">>

\* a post text of n UTF-16 units
Text(n) == [i \in 1..n |-> IF i % 2 = 1 THEN "a" ELSE "b"]

TextLens == {1, TruncBound, TruncBound + 1, TruncBound + MaxOver}

UsernameOf(id) == IF id = "u1" THEN "jack" ELSE IF id = "u2" THEN "nasa" ELSE Undef

\* TwitterUser records (src/src/server.ts:257-269)
User(id) == [id |-> id, username |-> UsernameOf(id)]

TweetIds == <<"123", "456", "789", "1011">>

\* TwitterTweet records (src/src/server.ts:271-282) that may stand at position k
\* of a response; author "u9" is never embedded.  The first post takes every
\* combination of length and author, the later ones three of them.
TweetsAt(k) ==
    {[id |-> TweetIds[k], text |-> Text(n), author_id |-> a] :
        n \in TextLens, a \in {Undef, "u1", "u9"}}

LaterTweetsAt(k) ==
    {[id |-> TweetIds[k], text |-> Text(1), author_id |-> "u9"],
     [id |-> TweetIds[k], text |-> Text(TruncBound), author_id |-> Undef],
     [id |-> TweetIds[k], text |-> Text(TruncBound + MaxOver), author_id |-> "u1"]}

RECURSIVE TweetLists(_)
TweetLists(n) ==
    IF n = 0 THEN {<<>>}
    ELSE LET shorter == TweetLists(n - 1)
         IN  shorter \cup {Append(l, t) : l \in {x \in shorter : Len(x) = n - 1},
                                          t \in IF n = 1 THEN TweetsAt(n)
                                                               ELSE LaterTweetsAt(n)}

\* includes.users of a response
IncludeLists == {<<>>, <<User("u1")>>, <<User("u2"), User("u1")>>}

NoData == [kind |-> "absent", items |-> <<>>]
NullData == [kind |-> "null", items |-> <<>>]

\* the data member of a 200 response, by endpoint
DataFor(ep) ==
    CASE ep \in {"search", "tweets"} ->
            {[kind |-> "list", items |-> l] : l \in TweetLists(MaxTweets)}
      [] ep = "tweet" -> {[kind |-> "one", items |-> <<t>>] : t \in TweetsAt(1)}
      [] ep \in {"lookup", "me"} ->
            {[kind |-> "one", items |-> <<u>>] : u \in {User("u1"), User(Undef)}}
      [] ep = "usersearch" ->
            {[kind |-> "list", items |-> l] : l \in {<<>>, <<User("u1"), User("u2")>>}}

Titles == {<<"Not Found Error">>}
Details == {<<>>, <<"Could not find user with username: [jack].">>,
            <<"Could not find tweet with id: [", "1", "4", "2", "9", "].">>}

Reply(status, body, shape, title, detail, data, users) ==
    [status |-> status, body |-> body, shape |-> shape, title |-> title,
     detail |-> detail, data |-> data, users |-> users]

\* bodies that carry no JSON: unparsable text, or no text at all
PlainReplies(status) ==
    {Reply(status, b, "none", <<>>, <<>>, NoData, <<>>) : b \in {"garbage", "empty"}}

\* JSON bodies carrying an error object, in errors[0] or at the top level
ErrorReplies(status) ==
    {Reply(status, "json", sh, t, d, NoData, <<>>) :
        sh \in {"errors", "top"}, t \in Titles, d \in Details}

FailStatuses == {404, 429, 500}

\* fetch itself rejects (the upstream cannot be reached): there is no response,
\* and detail holds the message of the error fetch throws
Unreachable ==
    Reply(0, "unreachable", "none", <<>>,
          <<"request to https://api.twitter.com failed, reason: connect ECONNREFUSED">>,
          NoData, <<>>)

\* every response the upstream may give to a request to endpoint ep
UpstreamReplies(ep) ==
    UNION {PlainReplies(st) \cup ErrorReplies(st) : st \in FailStatuses \cup {200}}
    \cup {Reply(st, "json", "none", <<>>, <<>>, NoData, <<>>) : st \in FailStatuses \cup {200}}
    \cup {Reply(200, "json", "none", <<>>, <<>>, NullData, <<>>)}
    \cup {Unreachable}
    \cup {Reply(200, "json", "none", <<>>, <<>>, d, inc) :
             d \in DataFor(ep),
             inc \in IF ep \in {"search", "tweets", "tweet"} THEN IncludeLists ELSE {<<>>}}

\* response.ok
Ok(status) == status >= 200 /\ status <= 299

\* response.statusText
StatusText(status) ==
    CASE status = 200 -> <<"OK">>
      [] status = 404 -> <<"Not Found">>
      [] status = 429 -> <<"Too Many Requests">>
      [] status = 500 -> <<"Internal Server Error">>

\* the text of the response body as it came over the wire
RawBody(r) ==
    CASE r.body \in {"empty", "unreachable"} -> <<>>
      [] r.body = "garbage" -> <<"<html>upstream gateway</html>">>
      [] OTHER -> <<"{">> \o r.title \o r.detail \o <<r.data.kind>> \o <<"}">>

(***************************************************************************)
(* Outcome of an async function: a value, or a thrown Error with message.  *)
(***************************************************************************)
Good(v) == [ok |-> TRUE, err |-> <<>>, val |-> v]
Bad(msg) == [ok |-> FALSE, err |-> msg, val |-> <<>>]

\* a || b on strings: the empty string is falsy
OrElse(a, b) == IF a # <<>> THEN a ELSE b

(***************************************************************************)
(* TwitterClient of the loose build (src/src/server.ts:284-445).           *)
(***************************************************************************)
\* body?.errors?.[0]?.detail || body?.errors?.[0]?.title
FirstErrorText(r) ==
    IF r.body = "json" /\ r.shape = "errors" THEN OrElse(r.detail, r.title) ELSE <<>>

buildErrorMessage(r) ==
    LET statusPart == <<"Twitter API error (">> \o Digits(r.status) \o <<")">>
        detail == FirstErrorText(r)
    IN  IF detail # <<>> THEN statusPart \o <<": ">> \o detail
        ELSE statusPart \o <<": ">> \o StatusText(r.status)

fetchJson(r) ==
    IF r = Unreachable THEN Bad(r.detail)
    ELSE IF ~Ok(r.status) THEN Bad(buildErrorMessage(r))
    ELSE IF r.body = "json" /\ r.shape = "errors"
         THEN Bad(OrElse(r.detail, OrElse(r.title, <<"Twitter API returned an error">>)))
    ELSE IF r.body # "json" \/ r.data.kind = "absent"
         THEN Bad(<<"Malformed response from Twitter API">>)
    ELSE Good(r)

normalizeUser(user) ==
    [id |-> user.id, username |-> user.username,
     profileUrl |-> <<"https://twitter.com/", Interp(user.username)>>]

NoAuthor == [id |-> Undef, username |-> Undef, profileUrl |-> <<>>]

\* the Map filled by includes.users.forEach: a later record replaces an earlier one
AuthorsMap(users) ==
    [id \in {users[k].id : k \in 1..Len(users)} |->
        LET last == CHOOSE k \in 1..Len(users) :
                        /\ users[k].id = id
                        /\ \A m \in (k + 1)..Len(users) : users[m].id # id
        IN  normalizeUser(users[last])]

\* text.slice(0, n)
Slice(text, n) == IF Len(text) <= n THEN text ELSE SubSeq(text, 1, n)

\* normalizeTweet cutting at the bound instead of three units before it
normalizeTweet_sliceAtBound(tweet, authors) ==
    LET trimmed == IF Len(tweet.text) > TruncBound
                   THEN Slice(tweet.text, TruncBound) \o Ellipsis
                   ELSE tweet.text
        author == IF tweet.author_id # Undef /\ tweet.author_id \in DOMAIN authors
                  THEN authors[tweet.author_id]
                  ELSE NoAuthor
        handle == IF author.username # Undef THEN author.username ELSE "twitter"
    IN  [id |-> tweet.id, text |-> trimmed, author |-> author,
         url |-> <<"https://twitter.com/", handle, "/status/", tweet.id>>]

\* normalizeTweet looking the author up under the post's id
normalizeTweet_authorByPostId(tweet, authors) ==
    LET trimmed == IF Len(tweet.text) > TruncBound
                   THEN Slice(tweet.text, TruncKeep) \o Ellipsis
                   ELSE tweet.text
        author == IF tweet.author_id # Undef /\ tweet.id \in DOMAIN authors
                  THEN authors[tweet.id]
                  ELSE NoAuthor
        handle == IF author.username # Undef THEN author.username ELSE "twitter"
    IN  [id |-> tweet.id, text |-> trimmed, author |-> author,
         url |-> <<"https://twitter.com/", handle, "/status/", tweet.id>>]

normalizeTweet(tweet, authors) ==
    LET trimmed == IF Len(tweet.text) > TruncBound
                   THEN Slice(tweet.text, TruncKeep) \o Ellipsis
                   ELSE tweet.text
        author == IF tweet.author_id # Undef /\ tweet.author_id \in DOMAIN authors
                  THEN authors[tweet.author_id]
                  ELSE NoAuthor
        handle == IF author.username # Undef THEN author.username ELSE "twitter"
    IN  [id |-> tweet.id, text |-> trimmed, author |-> author,
         url |-> <<"https://twitter.com/", handle, "/status/", tweet.id>>]

NormalizeAll(r) ==
    LET authors == AuthorsMap(r.users)
    IN  [k \in 1..Len(r.data.items) |-> normalizeTweet(r.data.items[k], authors)]

getMe(r) ==
    LET response == fetchJson(r)
    IN  IF ~response.ok THEN response
        ELSE IF r.data.kind = "null" THEN Bad(<<"Missing user data in response">>)
        ELSE Good(normalizeUser(r.data.items[1]))

getUserByUsername(r) ==
    LET response == fetchJson(r)
    IN  IF ~response.ok THEN response
        ELSE IF r.data.kind = "null" THEN Bad(<<"User ", "not found">>)
        ELSE Good(normalizeUser(r.data.items[1]))

\* also searchRecentTweets: the two differ in the URL only
getUserTweets(r) ==
    LET response == fetchJson(r)
    IN  IF ~response.ok THEN response ELSE Good(NormalizeAll(r))

getTweetById(r) ==
    LET response == fetchJson(r)
    IN  IF ~response.ok THEN response
        ELSE IF r.data.kind = "null" THEN Bad(<<"Tweet ", "not found">>)
        ELSE Good(NormalizeAll(r)[1])

searchUsers(r) ==
    LET response == fetchJson(r)
    IN  IF ~response.ok THEN response
        ELSE Good([k \in 1..Len(r.data.items) |-> normalizeUser(r.data.items[k])])

(***************************************************************************)
(* The client of the strict build (src/src/twitterClient.ts).              *)
(***************************************************************************)
\* JSON.stringify(data) inside a template: undefined prints as "undefined"
Stringify(r) == IF r.body = "json" THEN RawBody(r) ELSE <<"undefined">>

\* the parsed body, or undefined when response.json() rejected
Parsed(r) == [defined |-> r.body = "json", body |-> r]

fetchJsonRaw(r) ==
    IF r = Unreachable THEN Bad(r.detail)
    ELSE IF ~Ok(r.status)
    THEN Bad(<<"Twitter API error (">> \o Digits(r.status) \o <<"): ">> \o Stringify(r))
    ELSE Good(Parsed(r))

(***************************************************************************)
(* twitter.js of the legacy build (src/unnamed/part_001).                  *)
(***************************************************************************)
\* the part of twitterRequest that runs before the request is sent
MissingToken == Bad(<<"TWITTER_BEARER_TOKEN environment variable is not set.">>)

\* the part of twitterRequest that runs on the response
twitterRequest(r) ==
    IF r = Unreachable THEN Bad(r.detail)
    ELSE IF r.body = "garbage"
         THEN Bad(<<"Twitter API returned non-JSON response: ">> \o RawBody(r))
    ELSE IF ~Ok(r.status)
         THEN LET msg == IF r.body = "json" /\ r.shape = "top" /\ r.title # <<>>
                         THEN r.title \o <<": ">> \o r.detail
                         ELSE RawBody(r)
              IN  Bad(<<"Twitter API error (">> \o Digits(r.status) \o <<"): ">> \o msg)
    ELSE Good(Parsed(r))

\* an upstream base URL: its origin, then the segments of its path
ProductionUrl == <<"https://api.twitter.com", "/2">>

\* the path of the endpoint a request goes to
EndpointPath(c) ==
    CASE c.ep = "me" -> <<"/users/me">>
      [] c.ep = "lookup" -> <<"/users/by/username/", Interp(c.arg)>>
      [] c.ep = "tweets" -> <<"/users/", Interp(c.arg), "/tweets">>
      [] c.ep = "search" -> <<"/tweets/search/recent">>
      [] c.ep = "tweet" -> <<"/tweets/", Interp(c.arg)>>
      [] c.ep = "usersearch" -> <<"/users/search">>

\* new URL(path, base) up to the query: a path that begins with "/" replaces
\* the whole path of the base, a relative one its last segment
buildUrl(base, absolute, path) ==
    IF absolute THEN <<base[1]>> \o path
    ELSE SubSeq(base, 1, IF Len(base) > 1 THEN Len(base) - 1 ELSE 1) \o path

\* the URL a request is sent to: buildUrl in the loose build, the base URL
\* and the path in one template string in the others
RequestUrl(v, base, c) ==
    IF v = "loose" THEN buildUrl(base, TRUE, EndpointPath(c))
    ELSE ProductionUrl \o EndpointPath(c)

\* the client function each build hands an upstream response to
ClientOutcome(v, r) ==
    CASE v = "strict" -> fetchJsonRaw(r)
      [] v = "loose" -> fetchJson(r)
      [] v = "legacy" -> twitterRequest(r)

(***************************************************************************)
(* Tool arguments and their zod schemas.                                   *)
(***************************************************************************)
\* a limit argument: absent, a non-integer number, or an integer
NoLimit == <<"absent", 0>>
Frac == <<"frac", 0>>
Int_(n) == <<"int", n>>

LimitInputs == {NoLimit, Frac, Int_(0), Int_(1), Int_(10), Int_(50), Int_(51)}
StringInputs == {Undef, "", "jack"}
ArgInputs == [s : StringInputs, limit : LimitInputs]

Schema(str, lim, min, max, def) ==
    [str |-> str, lim |-> lim, min |-> min, max |-> max, def |-> def]

healthSchema == Schema("none", FALSE, 0, 0, 0)
searchTweetsSchema == Schema("min1", TRUE, 1, 50, 10)
userTweetsSchema == Schema("min1", TRUE, 1, 50, 10)
tweetIdSchema == Schema("min1", FALSE, 0, 0, 0)
searchUsersSchema == Schema("min1", TRUE, 1, 25, 10)
searchRecentTweetsInput == Schema("min1", TRUE, 1, 50, 10)
userTimelineInput == Schema("min1", TRUE, 1, 50, 10)
\* z.string() and z.number().int().min(..).max(100).optional(): def 0 is "no default"
legacySearchShape == Schema("any", TRUE, 10, 100, 0)
legacyUserShape == Schema("any", TRUE, 5, 100, 0)

StringIssue(schema, v) ==
    IF schema.str = "none" THEN <<>>
    ELSE IF v = Undef THEN <<"Required">>
    ELSE IF schema.str = "min1" /\ v = "" THEN <<"String must contain at least 1 character(s)">>
    ELSE <<>>

\* LimitIssue without the .max(..) constraint
LimitIssue_noUpperBound(schema, l) ==
    IF ~schema.lim \/ l = NoLimit THEN <<>>
    ELSE IF l = Frac THEN <<"Expected integer, received float">>
    ELSE IF l[2] < schema.min
         THEN <<"Number must be greater than or equal to ">> \o Digits(schema.min)
    ELSE <<>>

LimitIssue(schema, l) ==
    IF ~schema.lim \/ l = NoLimit THEN <<>>
    ELSE IF l = Frac THEN <<"Expected integer, received float">>
    ELSE IF l[2] < schema.min
         THEN <<"Number must be greater than or equal to ">> \o Digits(schema.min)
    ELSE IF l[2] > schema.max
         THEN <<"Number must be less than or equal to ">> \o Digits(schema.max)
    ELSE <<>>

\* schema.parse(input ?? {}): the parsed arguments, or a thrown ZodError
Parse(schema, input) ==
    LET issues == StringIssue(schema, input.s) \o LimitIssue(schema, input.limit)
    IN  IF issues # <<>> THEN Bad(<<"zod: ">> \o issues)
        ELSE Good([s |-> IF schema.str = "none" THEN Undef ELSE input.s,
                   limit |-> IF ~schema.lim THEN NoLimit
                             ELSE IF input.limit = NoLimit /\ schema.def > 0
                                  THEN Int_(schema.def)
                             ELSE input.limit])

(***************************************************************************)
(* Results of a tool handler, and upstream requests.                       *)
(***************************************************************************)
jsonContent(json) == [kind |-> "json", text |-> <<>>, payload |-> json]
textContent(text) == [kind |-> "text", text |-> text, payload |-> <<>>]
\* the handler's promise rejected: the error reaches the McpServer
Thrown(msg) == [kind |-> "throw", text |-> msg, payload |-> <<>>]
\* the McpServer refused the arguments and did not run the handler
Refused(msg) == [kind |-> "refused", text |-> msg, payload |-> <<>>]
NoResult == [kind |-> "none", text |-> <<>>, payload |-> <<>>]

\* an upstream GET: the endpoint, its path argument or query, max_results (0: not sent)
Call(ep, arg, max) == [ep |-> ep, arg |-> arg, max |-> max]

\* where a handler stands: the requests it has issued and, once it ended, its result
Awaiting(cs) == [calls |-> cs, result |-> NoResult]
Ended(cs, r) == [calls |-> cs, result |-> r]

RateLimitMessage == <<"Twitter API rate limit exceeded, try again later.">>

\* for an Error with the given message
formatTwitterError(msg) ==
    LET message == OrElse(msg, <<"Unknown error">>)
    IN  IF Includes(ToLower(message), <<"4", "2", "9">>) THEN RateLimitMessage
        ELSE <<"Twitter API error: ">> \o message

\* for an Error with the given message
safeErrorMessage(msg) == msg

\* the catch block of the loose build's handlers
LooseCatch(msg) == textContent(formatTwitterError(msg))

\* the catch block of the strict build's handlers
StrictCatch(msg) == textContent(<<"Twitter API error: ">> \o safeErrorMessage(msg))

(***************************************************************************)
(* Tool handlers.  Each is given the call's input and the upstream         *)
(* responses rs received so far, and runs to its next await or to its end. *)
(***************************************************************************)
\* ---- loose build: buildMcpServer (src/unnamed/part_002:62-173)
health(input, rs) ==
    Ended(<<>>, jsonContent([status |-> "ok"]))

search_tweets(input, rs) ==
    LET parsed == Parse(searchTweetsSchema, input)
        c1 == Call("search", parsed.val.s, parsed.val.limit[2])
    IN  IF ~parsed.ok THEN Ended(<<>>, LooseCatch(parsed.err))
        ELSE IF Len(rs) = 0 THEN Awaiting(<<c1>>)
        ELSE LET tweets == getUserTweets(rs[1])
             IN  IF ~tweets.ok THEN Ended(<<c1>>, LooseCatch(tweets.err))
                 ELSE Ended(<<c1>>, jsonContent([query |-> parsed.val.s,
                                                 count |-> Len(tweets.val),
                                                 tweets |-> tweets.val]))

get_user_tweets(input, rs) ==
    LET parsed == Parse(userTweetsSchema, input)
        c1 == Call("lookup", parsed.val.s, 0)
    IN  IF ~parsed.ok THEN Ended(<<>>, LooseCatch(parsed.err))
        ELSE IF Len(rs) = 0 THEN Awaiting(<<c1>>)
        ELSE LET user == getUserByUsername(rs[1])
                 c2 == Call("tweets", Interp(user.val.id), parsed.val.limit[2])
             IN  IF ~user.ok THEN Ended(<<c1>>, LooseCatch(user.err))
                 ELSE IF Len(rs) = 1 THEN Awaiting(<<c1, c2>>)
                 ELSE LET tweets == getUserTweets(rs[2])
                      IN  IF ~tweets.ok THEN Ended(<<c1, c2>>, LooseCatch(tweets.err))
                          ELSE Ended(<<c1, c2>>, jsonContent([user |-> user.val,
                                                              tweets |-> tweets.val]))

get_tweet_by_id(input, rs) ==
    LET parsed == Parse(tweetIdSchema, input)
        c1 == Call("tweet", parsed.val.s, 0)
    IN  IF ~parsed.ok THEN Ended(<<>>, LooseCatch(parsed.err))
        ELSE IF Len(rs) = 0 THEN Awaiting(<<c1>>)
        ELSE LET tweet == getTweetById(rs[1])
             IN  IF ~tweet.ok THEN Ended(<<c1>>, LooseCatch(tweet.err))
                 ELSE Ended(<<c1>>, jsonContent(tweet.val))

search_users(input, rs) ==
    LET parsed == Parse(searchUsersSchema, input)
        c1 == Call("usersearch", parsed.val.s, parsed.val.limit[2])
    IN  IF ~parsed.ok THEN Ended(<<>>, LooseCatch(parsed.err))
        ELSE IF Len(rs) = 0 THEN Awaiting(<<c1>>)
        ELSE LET users == searchUsers(rs[1])
             IN  IF ~users.ok THEN Ended(<<c1>>, LooseCatch(users.err))
                 ELSE Ended(<<c1>>, jsonContent([query |-> parsed.val.s,
                                                 count |-> Len(users.val),
                                                 users |-> users.val]))

get_authenticated_profile(input, rs) ==
    LET c1 == Call("me", Undef, 0)
    IN  IF Len(rs) = 0 THEN Awaiting(<<c1>>)
        ELSE LET profile == getMe(rs[1])
             IN  IF ~profile.ok THEN Ended(<<c1>>, LooseCatch(profile.err))
                 ELSE Ended(<<c1>>, jsonContent(profile.val))

\* ---- strict build: start (src/src/server.ts:59-123)
twitter_get_profile(input, rs) ==
    LET c1 == Call("me", Undef, 0)
    IN  IF Len(rs) = 0 THEN Awaiting(<<c1>>)
        ELSE LET profileData == fetchJsonRaw(rs[1])
             IN  IF ~profileData.ok THEN Ended(<<c1>>, StrictCatch(profileData.err))
                 ELSE Ended(<<c1>>, jsonContent(profileData.val))

twitter_search_recent_tweets(input, rs) ==
    LET parsed == Parse(searchRecentTweetsInput, input)
        c1 == Call("search", parsed.val.s, parsed.val.limit[2])
    IN  IF ~parsed.ok THEN Ended(<<>>, StrictCatch(parsed.err))
        ELSE IF Len(rs) = 0 THEN Awaiting(<<c1>>)
        ELSE LET results == fetchJsonRaw(rs[1])
             IN  IF ~results.ok THEN Ended(<<c1>>, StrictCatch(results.err))
                 ELSE Ended(<<c1>>, jsonContent(results.val))

\* userData?.data?.id
DataId(parsedBody) ==
    IF parsedBody.defined /\ parsedBody.body.data.kind = "one"
    THEN parsedBody.body.data.items[1].id
    ELSE Undef

twitter_get_user_timeline(input, rs) ==
    LET parsed == Parse(userTimelineInput, input)
        c1 == Call("lookup", parsed.val.s, 0)
    IN  IF ~parsed.ok THEN Ended(<<>>, StrictCatch(parsed.err))
        ELSE IF Len(rs) = 0 THEN Awaiting(<<c1>>)
        ELSE LET userData == fetchJsonRaw(rs[1])
                 id == DataId(userData.val)
                 c2 == Call("tweets", id, parsed.val.limit[2])
             IN  IF ~userData.ok THEN Ended(<<c1>>, StrictCatch(userData.err))
                 ELSE IF id = Undef
                      THEN Ended(<<c1>>, StrictCatch(<<"User ", "not found", " or missing id">>))
                 ELSE IF Len(rs) = 1 THEN Awaiting(<<c1, c2>>)
                 ELSE LET tweetsData == fetchJsonRaw(rs[2])
                      IN  IF ~tweetsData.ok THEN Ended(<<c1, c2>>, StrictCatch(tweetsData.err))
                          ELSE Ended(<<c1, c2>>, jsonContent([user |-> userData.val,
                                                              tweets |-> tweetsData.val]))

\* ---- legacy build: server.tool handlers (src/unnamed/part_000:9-45) inlined
\*      with searchRecentTweets / getUserTweets of twitter.js
Clamp(lo, hi, x) == IF x < lo THEN lo ELSE IF x > hi THEN hi ELSE x

\* maxResults ?? 20
OrTwenty(l) == IF l = NoLimit THEN 20 ELSE l[2]

twitter_search_recent(hasToken, input, rs) ==
    LET shape == Parse(legacySearchShape, input)
        clamped == Clamp(10, 100, OrTwenty(input.limit))
        c1 == Call("search", input.s, clamped)
    IN  IF ~shape.ok THEN Ended(<<>>, Refused(shape.err))
        ELSE IF ~hasToken THEN Ended(<<>>, Thrown(MissingToken.err))
        ELSE IF Len(rs) = 0 THEN Awaiting(<<c1>>)
        ELSE LET result_ == twitterRequest(rs[1])
             IN  IF ~result_.ok THEN Ended(<<c1>>, Thrown(result_.err))
                 ELSE Ended(<<c1>>, jsonContent(result_.val))

twitter_user_tweets(hasToken, input, rs) ==
    LET shape == Parse(legacyUserShape, input)
        c1 == Call("lookup", input.s, 0)
    IN  IF ~shape.ok THEN Ended(<<>>, Refused(shape.err))
        ELSE IF ~hasToken THEN Ended(<<>>, Thrown(MissingToken.err))
        ELSE IF Len(rs) = 0 THEN Awaiting(<<c1>>)
        ELSE LET user == twitterRequest(rs[1])
                 userId == DataId(user.val)
                 clamped == Clamp(5, 100, OrTwenty(input.limit))
                 c2 == Call("tweets", userId, clamped)
             IN  IF ~user.ok THEN Ended(<<c1>>, Thrown(user.err))
                 ELSE IF userId = Undef
                      THEN Ended(<<c1>>, Thrown(<<"User ", "not found", " for username: ", input.s>>))
                 ELSE IF Len(rs) = 1 THEN Awaiting(<<c1, c2>>)
                 ELSE LET tweets == twitterRequest(rs[2])
                      IN  IF ~tweets.ok THEN Ended(<<c1, c2>>, Thrown(tweets.err))
                          ELSE Ended(<<c1, c2>>, jsonContent([user |-> user.val,
                                                              tweets |-> tweets.val]))

ToolsOf(v) ==
    CASE v = "loose" -> {"health", "search_tweets", "get_user_tweets", "get_tweet_by_id",
                         "search_users", "get_authenticated_profile"}
      [] v = "strict" -> {"twitter_get_profile", "twitter_search_recent_tweets",
                          "twitter_get_user_timeline"}
      [] v = "legacy" -> {"twitter_search_recent", "twitter_user_tweets"}

\* the McpServer's dispatch of a tools/call to the registered handler
RunTool(t, hasToken, input, rs) ==
    CASE t = "health" -> health(input, rs)
      [] t = "search_tweets" -> search_tweets(input, rs)
      [] t = "get_user_tweets" -> get_user_tweets(input, rs)
      [] t = "get_tweet_by_id" -> get_tweet_by_id(input, rs)
      [] t = "search_users" -> search_users(input, rs)
      [] t = "get_authenticated_profile" -> get_authenticated_profile(input, rs)
      [] t = "twitter_get_profile" -> twitter_get_profile(input, rs)
      [] t = "twitter_search_recent_tweets" -> twitter_search_recent_tweets(input, rs)
      [] t = "twitter_get_user_timeline" -> twitter_get_user_timeline(input, rs)
      [] t = "twitter_search_recent" -> twitter_search_recent(hasToken, input, rs)
      [] t = "twitter_user_tweets" -> twitter_user_tweets(hasToken, input, rs)

(***************************************************************************)
(* Configuration.  An environment variable is Undef when unset, otherwise  *)
(* a string; PORT is kept character by character.  PORT values stay within *)
(* plain decimal numerals (sign, digits, fraction, surrounding blanks).    *)
(***************************************************************************)
DigitValue ==
    [c \in {"0", "1", "2", "3", "4", "5", "6", "7", "8", "9"} |->
        CHOOSE n \in 0..9 : <<"0", "1", "2", "3", "4", "5", "6", "7", "8", "9">>[n + 1] = c]

RECURSIVE DigitsValue(_)
DigitsValue(s) ==
    IF s = <<>> THEN 0
    ELSE 10 * DigitsValue(SubSeq(s, 1, Len(s) - 1)) + DigitValue[s[Len(s)]]

\* s without its leading blanks
TrimStart(s) ==
    LET first == CHOOSE i \in 1..(Len(s) + 1) :
                     /\ \A j \in 1..(i - 1) : s[j] = " "
                     /\ i = Len(s) + 1 \/ s[i] # " "
    IN  SubSeq(s, first, Len(s))

\* s without its leading and trailing blanks
Trim(s) ==
    LET t == TrimStart(s)
        last == CHOOSE i \in 0..Len(t) :
                    /\ \A j \in (i + 1)..Len(t) : t[j] = " "
                    /\ i = 0 \/ t[i] # " "
    IN  SubSeq(t, 1, last)

\* a JavaScript number, as far as getConfig looks at it
NaN == [nan |-> TRUE, neg |-> FALSE, int |-> 0, frac |-> FALSE]
Num(neg, int, frac) == [nan |-> FALSE, neg |-> neg, int |-> int, frac |-> frac]

\* the unsigned decimal numeral s: digits, optionally "." and digits
Unsigned(neg, s) ==
    LET dots == {i \in 1..Len(s) : s[i] = "."}
        dot == IF dots = {} THEN Len(s) + 1 ELSE CHOOSE i \in dots : \A j \in dots : i <= j
        whole == SubSeq(s, 1, dot - 1)
        fraction == SubSeq(s, dot + 1, Len(s))
        allDigits(t) == \A i \in 1..Len(t) : t[i] \in DOMAIN DigitValue
    IN  IF ~allDigits(whole) \/ ~allDigits(fraction) \/ (whole = <<>> /\ fraction = <<>>)
        THEN NaN
        ELSE Num(neg, DigitsValue(whole), \E i \in 1..Len(fraction) : fraction[i] # "0")

\* Number(s)
StringToNumber(s) ==
    LET t == Trim(s)
    IN  IF t = <<>> THEN Num(FALSE, 0, FALSE)
        ELSE IF t[1] = "-" THEN Unsigned(TRUE, Tail(t))
        ELSE IF t[1] = "+" THEN Unsigned(FALSE, Tail(t))
        ELSE Unsigned(FALSE, t)

\* parseInt(s, 10): the longest run of digits after blanks and a sign
ParseInt(s) ==
    LET t == TrimStart(s)
        neg == t # <<>> /\ t[1] = "-"
        body == IF t # <<>> /\ t[1] \in {"-", "+"} THEN Tail(t) ELSE t
        n == CHOOSE i \in 0..Len(body) :
                 /\ \A j \in 1..i : body[j] \in DOMAIN DigitValue
                 /\ i = Len(body) \/ body[i + 1] \notin DOMAIN DigitValue
    IN  IF n = 0 THEN NaN ELSE Num(neg, DigitsValue(SubSeq(body, 1, n)), FALSE)

DefaultPort == <<"3", "0", "0", "0">>

\* an unset variable whose value would be kept character by character
Unset == <<Undef>>

Env(p, token, key, base) == [PORT |-> p, TOKEN |-> token, KEY |-> key, BASE |-> base]
Envs ==
    {Env(p, t, k, b) :
        p \in {Unset, <<>>, <<"8", "0", "8", "0">>, <<"0">>, <<"-", "1">>,
               <<"8", "0", ".", "5">>, <<"8", "0", ".", "0">>, <<" ", "8", "0", " ">>,
               <<"a", "b", "c">>, <<"8", "0", "a">>, <<"0", "0", "8", "0">>},
        t \in {Undef, "", "token"},
        k \in {Undef, "", "secret"},
        b \in {Unset, <<"http://localhost:9000">>, <<"http://localhost:9000", "/2">>}}

AppConfig(p, token, key, base) ==
    [port |-> p, twitterBearerToken |-> token, mcpServerApiKey |-> key,
     twitterApiBaseUrl |-> base]

\* the port check with "port < 0" for "port <= 0"
PortOf_acceptsZero(e) ==
    LET portValue == IF e.PORT = Unset THEN DefaultPort ELSE e.PORT
        n == StringToNumber(portValue)
    IN  IF (n.nan \/ n.frac) \/ (n.neg /\ n.int > 0)
        THEN Bad(<<"Invalid ", "PORT", " value: ">> \o portValue)
        ELSE Good(n.int)

\* the port check of getConfig, on process.env.PORT
PortOf(e) ==
    LET portValue == IF e.PORT = Unset THEN DefaultPort ELSE e.PORT
        n == StringToNumber(portValue)
    IN  IF (n.nan \/ n.frac) \/ (n.neg \/ n.int = 0)
        THEN Bad(<<"Invalid ", "PORT", " value: ">> \o portValue)
        ELSE Good(n.int)

\* requireEnv(name) on the value the variable has
requireEnv(name, value) ==
    IF value = Undef \/ value = ""
    THEN Bad(<<"Missing required environment variable: ", name>>)
    ELSE Good(value)

\* getConfig of the strict build (src/src/server.ts:200-216)
getConfig(e) ==
    LET p == PortOf(e)
        twitterBearerToken == requireEnv("TWITTER_BEARER_TOKEN", e.TOKEN)
        mcpServerApiKey == requireEnv("MCP_SERVER_API_KEY", e.KEY)
    IN  IF ~p.ok THEN p
        ELSE IF ~twitterBearerToken.ok THEN twitterBearerToken
        ELSE IF ~mcpServerApiKey.ok THEN mcpServerApiKey
        ELSE Good(AppConfig(p.val, e.TOKEN, e.KEY, ProductionUrl))

\* getConfig of the loose build: its config.ts is not in the repository's
\* sources; the key is optional and the base URL may be overridden
looseGetConfig(e) ==
    LET p == PortOf(e)
        twitterBearerToken == requireEnv("TWITTER_BEARER_TOKEN", e.TOKEN)
    IN  IF ~p.ok THEN p
        ELSE IF ~twitterBearerToken.ok THEN twitterBearerToken
        ELSE Good(AppConfig(p.val, e.TOKEN,
                            IF e.KEY = Undef THEN "" ELSE e.KEY,
                            IF e.BASE = Unset THEN ProductionUrl ELSE e.BASE))

\* the legacy build reads PORT with parseInt(process.env.PORT || "3000", 10)
\* and the token on each request; it never refuses to start
legacyConfig(e) ==
    LET n == ParseInt(IF e.PORT = Unset \/ e.PORT = <<>> THEN DefaultPort ELSE e.PORT)
    IN  Good(AppConfig(IF n.nan THEN 0 ELSE n.int,
                       IF e.TOKEN = Undef THEN "" ELSE e.TOKEN, "", ProductionUrl))

ConfigOf(v, e) ==
    CASE v = "strict" -> getConfig(e)
      [] v = "loose" -> looseGetConfig(e)
      [] v = "legacy" -> legacyConfig(e)

(***************************************************************************)
(* The express application.                                                *)
(***************************************************************************)
Variants == {"strict", "loose", "legacy"}
Methods == {"GET", "POST", "DELETE"}
Paths == {"/mcp", "/health"}
\* the x-api-key header: absent, the configured secret, or something else
Keys == {Undef, "secret", "wrong"}
\* the request body: none, a JSON-RPC tools/call, text that is not JSON, or
\* JSON larger than the parser's limit
Bodies == {"none", "json", "malformed", "oversize"}

Request(m, p, k, b) == [method |-> m, path |-> p, key |-> k, body |-> b]
NoRequest == Request("none", "none", Undef, "none")

Response(status, code, message) == [status |-> status, code |-> code, message |-> message]
NoResponse == Response(0, 0, "none")
\* next(): the middleware let the request through
Next_ == Response(0, 0, "next")

\* app.use(express.json(...)): a body it cannot parse ends the request
expressJson(r) ==
    CASE r.body = "malformed" -> Response(400, 0, "entity.parse.failed")
      [] r.body = "oversize" -> Response(413, 0, "entity.too.large")
      [] OTHER -> Next_

Unauthorized == Response(401, -32001, "Unauthorized MCP request")
MethodNotAllowed == Response(405, -32000, "Method not allowed")
HealthOk == Response(200, 0, "ok")
\* express answers a request no route matched
NotFound == Response(404, 0, "Cannot " )
\* the transport took the request over: transport.handleRequest(req, res, req.body)
ToTransport == Response(0, 0, "handleRequest")

\* app.use("/mcp", ...) of start(): the key is always required
strictGate(key, r) ==
    IF r.path # "/mcp" THEN Next_
    ELSE IF r.key = Undef \/ r.key # key THEN Unauthorized
    ELSE Next_

\* app.use("/mcp", ...) of createHttpApp: the key is required when configured
looseGate(key, r) ==
    IF r.path # "/mcp" THEN Next_
    ELSE IF key # "" /\ (r.key = Undef \/ r.key # key) THEN Unauthorized
    ELSE Next_

strictRoutes(r) ==
    IF r.path = "/mcp" /\ r.method = "POST" THEN ToTransport
    ELSE IF r.path = "/mcp" /\ r.method \in {"GET", "DELETE"} THEN MethodNotAllowed
    ELSE NotFound

looseRoutes(r) ==
    IF r.path = "/mcp" /\ r.method = "POST" THEN ToTransport
    ELSE IF r.path = "/health" /\ r.method = "GET" THEN HealthOk
    ELSE NotFound

legacyRoutes(r) ==
    IF r.path = "/mcp" /\ r.method = "POST" THEN ToTransport ELSE NotFound

\* the middleware chain, in the order the application registers it
Then(first, rest) == IF first = Next_ THEN rest ELSE first

Dispatch(v, key, r) ==
    CASE v = "strict" -> Then(expressJson(r), Then(strictGate(key, r), strictRoutes(r)))
      [] v = "loose" -> Then(expressJson(r), Then(looseGate(key, r), looseRoutes(r)))
      [] v = "legacy" -> Then(expressJson(r), legacyRoutes(r))

\* the transport's own answers
ToolResponse == Response(200, 0, "result")
ProtocolError == Response(400, -32700, "not a JSON-RPC message")

\* the transport has written the head of the response and part of its body
StreamStarted == Response(200, 0, "stream")

\* the response the catch block of app.post sends
Fallback(v) ==
    CASE v = "strict" -> Response(500, -32000, "Internal MCP error: ")
      [] v = "loose" -> Response(500, -32000, "formatTwitterError(error)")
      [] v = "legacy" -> Response(500, 0, "Internal MCP server error")

NoArgs == [s |-> Undef, limit |-> NoLimit]

(***************************************************************************)
(* State machine.                                                          *)
(***************************************************************************)
\* the environments the running server is looked at under
RunEnvs(v) ==
    {Env(Unset, t, k, b) :
        t \in IF v = "legacy" THEN {Undef, "token"} ELSE {"token"},
        k \in CASE v = "strict" -> {"secret"}
                 [] v = "loose" -> {Undef, "secret"}
                 [] v = "legacy" -> {Undef},
        b \in IF v = "loose"
               THEN {Unset, <<"http://localhost:9000">>, <<"http://localhost:9000", "/2">>}
               ELSE {Unset}}

\* the server after a successful start
Init ==
    /\ variant \in Variants
    /\ env \in RunEnvs(variant)
    /\ phase = "listening"
    /\ apiKey = ConfigOf(variant, env).val.mcpServerApiKey
    /\ tokenSet = (ConfigOf(variant, env).val.twitterBearerToken # "")
    /\ port = ConfigOf(variant, env).val.port
    /\ baseUrl = ConfigOf(variant, env).val.twitterApiBaseUrl
    /\ startupError = <<>>
    /\ binding = IF variant = "legacy" THEN "none" ELSE "startup"
    /\ others = 0
    /\ overwrites = 0
    /\ failure = "none"
    /\ req = NoRequest
    /\ res = NoResponse
    /\ handled = FALSE
    /\ pc = "idle"
    /\ tool = "none"
    /\ args = NoArgs
    /\ calls = <<>>
    /\ replies = <<>>
    /\ result = NoResult

Config == <<variant, apiKey, tokenSet, env, phase, port, baseUrl, startupError>>

\* the process before start() has run, under any environment
InitConfig ==
    /\ variant \in Variants
    /\ env \in Envs
    /\ phase = "boot"
    /\ apiKey = ""
    /\ tokenSet = FALSE
    /\ port = 0
    /\ baseUrl = <<>>
    /\ startupError = <<>>
    /\ binding = "none"
    /\ others = 0
    /\ overwrites = 0
    /\ failure = "none"
    /\ req = NoRequest
    /\ res = NoResponse
    /\ handled = FALSE
    /\ pc = "idle"
    /\ tool = "none"
    /\ args = NoArgs
    /\ calls = <<>>
    /\ replies = <<>>
    /\ result = NoResult

\* start(): getConfig, then app.listen(config.port); an error thrown on the
\* way reaches start().catch, which logs it and exits
Start ==
    LET config == ConfigOf(variant, env)
    IN  /\ phase = "boot"
        /\ phase' = IF config.ok THEN "listening" ELSE "exited"
        /\ apiKey' = IF config.ok THEN config.val.mcpServerApiKey ELSE apiKey
        /\ tokenSet' = IF config.ok THEN config.val.twitterBearerToken # "" ELSE tokenSet
        /\ port' = IF config.ok THEN config.val.port ELSE port
        /\ baseUrl' = IF config.ok THEN config.val.twitterApiBaseUrl ELSE baseUrl
        /\ startupError' = config.err
        /\ binding' = IF config.ok /\ variant # "legacy" THEN "startup" ELSE binding
        /\ UNCHANGED <<variant, env, req, res, handled, pc, tool, args, calls, replies,
                       result, others, overwrites, failure>>

SpecConfig == InitConfig /\ [][Start]_vars

\* a request that express answers itself, without the transport
HttpRequest(m, p, k, b) ==
    LET r == Request(m, p, k, b)
        answer == Dispatch(variant, apiKey, r)
    IN  /\ pc = "idle"
        /\ answer # ToTransport
        /\ req' = r
        /\ res' = answer
        /\ handled' = FALSE
        /\ pc' = "done"
        /\ tool' = "none"
        /\ args' = NoArgs
        /\ calls' = <<>>
        /\ replies' = <<>>
        /\ result' = NoResult
        /\ overwrites' = 0
        /\ failure' = "none"
        /\ UNCHANGED <<Config, binding, others>>

\* POST /mcp reaching app.post: the transport is handed a body that is no
\* JSON-RPC message, and answers it itself
PostNoCall(k) ==
    LET r == Request("POST", "/mcp", k, "none")
    IN  /\ pc = "idle"
        /\ Dispatch(variant, apiKey, r) = ToTransport
        /\ req' = r
        /\ res' = ProtocolError
        /\ handled' = TRUE
        /\ pc' = "done"
        /\ tool' = "none"
        /\ args' = NoArgs
        /\ calls' = <<>>
        /\ replies' = <<>>
        /\ result' = NoResult
        /\ binding' = IF variant = "legacy" THEN "request" ELSE binding
        /\ overwrites' = 0
        /\ failure' = "none"
        /\ UNCHANGED <<Config, others>>

\* POST /mcp reaching app.post with a tools/call for tool t: the handler runs
\* to its first await, or to its end
PostToolCall(k, t, input) ==
    LET r == Request("POST", "/mcp", k, "json")
        step == RunTool(t, tokenSet, input, <<>>)
    IN  /\ pc = "idle"
        /\ Dispatch(variant, apiKey, r) = ToTransport
        /\ t \in ToolsOf(variant)
        /\ req' = r
        /\ handled' = TRUE
        /\ tool' = t
        /\ args' = input
        /\ calls' = step.calls
        /\ replies' = <<>>
        /\ result' = step.result
        /\ pc' = IF step.result = NoResult THEN "await" ELSE "done"
        /\ res' = IF step.result = NoResult THEN NoResponse ELSE ToolResponse
        /\ binding' = IF variant = "legacy" THEN "request" ELSE binding
        /\ overwrites' = 0
        /\ failure' = "none"
        /\ UNCHANGED <<Config, others>>

\* the upstream answers the request the handler awaits; the handler resumes
UpstreamResponse(r) ==
    LET rs == Append(replies, r)
        step == RunTool(tool, tokenSet, args, rs)
    IN  /\ pc = "await"
        /\ replies' = rs
        /\ calls' = step.calls
        /\ result' = step.result
        /\ pc' = IF step.result = NoResult THEN "await" ELSE "done"
        /\ res' = IF step.result = NoResult THEN NoResponse ELSE ToolResponse
        /\ UNCHANGED <<req, handled, tool, args, Config, binding, others, overwrites,
                       failure>>

\* the response has been sent and the connection is released: nothing of the
\* request outlives it
Finish ==
    /\ pc = "done"
    /\ pc' = "idle"
    /\ req' = NoRequest
    /\ res' = NoResponse
    /\ handled' = FALSE
    /\ tool' = "none"
    /\ args' = NoArgs
    /\ calls' = <<>>
    /\ replies' = <<>>
    /\ result' = NoResult
    /\ binding' = IF variant = "legacy" /\ handled THEN "closed" ELSE binding
    /\ overwrites' = 0
    /\ failure' = "none"
    /\ UNCHANGED <<Config, others>>

\* transport.handleRequest rejects while the handler awaits the upstream,
\* after the transport has begun the response (written) or before; the catch
\* block of app.post runs
HandleRequestFails(written) ==
    /\ pc = "await"
    /\ pc' = "done"
    /\ failure' = IF written THEN "late" ELSE "early"
    /\ res' = IF written THEN StreamStarted ELSE Fallback(variant)
    /\ overwrites' = IF written /\ variant # "legacy" THEN overwrites + 1 ELSE overwrites
    /\ UNCHANGED <<req, handled, tool, args, calls, replies, result, Config, binding,
                   others>>

\* another POST /mcp reaches app.post while the request followed is in flight
OtherArrives ==
    /\ pc = "await"
    /\ others < MaxOthers
    /\ others' = others + 1
    /\ binding' = IF variant = "legacy" THEN "other" ELSE binding
    /\ UNCHANGED <<req, res, handled, pc, tool, args, calls, replies, result, Config,
                   overwrites, failure>>

\* the response of another request is closed
OtherLeaves ==
    /\ others > 0
    /\ others' = others - 1
    /\ binding' = IF variant = "legacy" THEN "closed" ELSE binding
    /\ UNCHANGED <<req, res, handled, pc, tool, args, calls, replies, result, Config,
                   overwrites, failure>>

Next ==
    \/ \E m \in Methods, p \in Paths, k \in Keys, b \in Bodies : HttpRequest(m, p, k, b)
    \/ \E k \in Keys : PostNoCall(k)
    \/ \E k \in Keys, t \in ToolsOf(variant), input \in ArgInputs : PostToolCall(k, t, input)
    \/ pc = "await" /\ \E r \in UpstreamReplies(calls[Len(calls)].ep) : UpstreamResponse(r)
    \/ Finish
    \/ \E written \in BOOLEAN : HandleRequestFails(written)
    \/ OtherArrives
    \/ OtherLeaves

Spec == Init /\ [][Next]_vars

(***************************************************************************)
(* Vocabulary of the properties.                                           *)
(***************************************************************************)
Answered == pc = "done" /\ req # NoRequest

\* the x-api-key header is absent or is not the configured secret
BadKey == req.key = Undef \/ req.key # apiKey

SchemaOf(t) ==
    CASE t = "search_tweets" -> searchTweetsSchema
      [] t = "get_user_tweets" -> userTweetsSchema
      [] t = "get_tweet_by_id" -> tweetIdSchema
      [] t = "search_users" -> searchUsersSchema
      [] t = "twitter_search_recent_tweets" -> searchRecentTweetsInput
      [] t = "twitter_get_user_timeline" -> userTimelineInput
      [] t = "twitter_search_recent" -> legacySearchShape
      [] t = "twitter_user_tweets" -> legacyUserShape
      [] OTHER -> healthSchema

\* the arguments break the schema in one of the ways C4 names
Violates(schema, input) ==
    \/ schema.str # "none" /\ input.s = Undef
    \/ schema.str = "min1" /\ input.s = ""
    \/ schema.lim /\ input.limit = Frac
    \/ schema.lim /\ input.limit[1] = "int" /\ input.limit[2] < schema.min
    \/ schema.lim /\ input.limit[1] = "int" /\ input.limit[2] > schema.max

\* the builds whose handlers validate their own arguments
SelfValidating == variant \in {"strict", "loose"}

\* the posts of the response a client operation normalized, and its summaries
PostTools == {"search_tweets", "get_user_tweets", "get_tweet_by_id"}
Normalized ==
    /\ variant = "loose" /\ pc = "done" /\ tool \in PostTools /\ result.kind = "json"
PostsIn == replies[Len(replies)].data.items
UsersIn == replies[Len(replies)].users
PostsOut ==
    CASE tool = "search_tweets" -> result.payload.tweets
      [] tool = "get_user_tweets" -> result.payload.tweets
      [] tool = "get_tweet_by_id" -> <<result.payload>>

\* an upstream response that is a failure of the call
Failed(r) == ~Ok(r.status) \/ r.body # "json" \/ r.shape # "none"

\* the lookup response carries an account record with an id
LookupGaveId(r) ==
    /\ Ok(r.status) /\ r.body = "json" /\ r.shape = "none"
    /\ r.data.kind = "one" /\ r.data.items[1].id # Undef

\* the lookup response is a success that carries no user data
LookupGaveNothing(r) ==
    /\ Ok(r.status) /\ r.body = "json" /\ r.shape = "none"
    /\ r.data.kind \in {"absent", "null"}

UserTweetTools == {"get_user_tweets", "twitter_get_user_timeline", "twitter_user_tweets"}

(***************************************************************************)
(* Properties.                                                             *)
(***************************************************************************)
\* C1: with a secret configured, a POST /mcp whose x-api-key is absent or wrong
\* is answered 401 with JSON-RPC code -32001 and never reaches
\* transport.handleRequest.
C1_UnauthorizedPostGets401 ==
    (Answered /\ req.method = "POST" /\ req.path = "/mcp" /\ apiKey # "" /\ BadKey)
        => (res.status = 401 /\ res.code = -32001 /\ ~handled)

\* C2: every GET /mcp and DELETE /mcp is answered 405, whatever its body and
\* headers.
C2_GetDeleteGets405 ==
    (Answered /\ req.method \in {"GET", "DELETE"} /\ req.path = "/mcp")
        => res.status = 405

\* C3: GET /health is answered 200 with the static payload, whatever the
\* configuration and the x-api-key, and calls nothing upstream.
C3_HealthAlways200 ==
    (Answered /\ req.method = "GET" /\ req.path = "/health")
        => (res = HealthOk /\ calls = <<>>)

\* C4: a tool call whose arguments violate the tool's schema ends with a text
\* error result, and no upstream request is issued for it.
C4_InvalidArgsNoUpstream ==
    (SelfValidating /\ tool # "none" /\ Violates(SchemaOf(tool), args))
        => (pc = "done" /\ result.kind = "text" /\ calls = <<>> /\ replies = <<>>)

C4_Witness ==
    /\ SelfValidating /\ tool = "search_tweets" /\ args.s = "jack"
    /\ args.limit = Int_(51) /\ result.kind = "text"

\* C5: every handler invocation ends with a success payload or a text error
\* message; none ends by throwing.
C5_HandlersNeverThrow ==
    (pc = "done" /\ tool # "none") => result.kind \in {"json", "text", "refused"}

\* C6: when an upstream call of the invocation answered 429, the tool result
\* is the rate-limit text and does not contain the raw upstream body.
C6_RateLimitNormalized ==
    (pc = "done" /\ \E i \in 1..Len(replies) : replies[i].status = 429)
        => /\ result = textContent(RateLimitMessage)
           /\ \A i \in 1..Len(replies) :
                 RawBody(replies[i]) # <<>> => ~Includes(result.text, RawBody(replies[i]))

\* C7: an invocation issues at most one upstream request (two for the
\* user-tweets tools: lookup, then posts), none after a failed one, and the
\* posts request only after a lookup that succeeded and returned an id.
C7_NoRetryNoFetchWithoutId ==
    /\ Len(calls) <= IF tool \in UserTweetTools THEN 2 ELSE 1
    /\ \A i \in 1..Len(replies) : Failed(replies[i]) => Len(calls) <= i
    /\ \A i \in 1..Len(calls) :
          (tool \in UserTweetTools /\ calls[i].ep = "tweets")
              => (i = 2 /\ calls[1].ep = "lookup" /\ Len(replies) >= 1
                  /\ LookupGaveId(replies[1]))

\* C8: when the handle lookup yields no account record, get-user-tweets ends
\* with a text error whose message contains "not found".
C8_NoRecordIsNotFound ==
    (variant = "loose" /\ tool = "get_user_tweets" /\ Len(replies) >= 1
        /\ LookupGaveNothing(replies[1]))
        => (pc = "done" /\ result.kind = "text" /\ Includes(result.text, <<"not found">>))

\* C9: a post text longer than 560 is normalized to a text of at most 560 that
\* ends with the ellipsis; a text of at most 560 is passed through unchanged.
C9_TextTruncated ==
    Normalized =>
        /\ Len(PostsOut) = Len(PostsIn)
        /\ \A k \in 1..Len(PostsIn) :
              /\ Len(PostsIn[k].text) > 560
                    => (EndsWith(PostsOut[k].text, Ellipsis) /\ Len(PostsOut[k].text) <= 560)
              /\ Len(PostsIn[k].text) <= 560 => PostsOut[k].text = PostsIn[k].text
              /\ Len(PostsOut[k].text) <= 560

C9_Witness ==
    /\ Normalized /\ Len(PostsIn) >= 1
    /\ Len(PostsIn[1].text) = 561 /\ Len(PostsOut[1].text) = 560

\* C10: a returned post whose author_id names an embedded user carries that
\* user's summary and a url with that user's handle; any other post carries no
\* author and a url with the handle "twitter"; the url ends with the post id.
C10_AuthorResolved ==
    Normalized =>
        \A k \in 1..Len(PostsIn) :
            LET t == PostsIn[k]
                s == PostsOut[k]
                embedded == {j \in 1..Len(UsersIn) : UsersIn[j].id = t.author_id}
            IN  /\ embedded # {} =>
                      /\ \E j \in embedded : s.author = normalizeUser(UsersIn[j])
                      /\ s.url = <<"https://twitter.com/", s.author.username, "/status/", t.id>>
                /\ embedded = {} =>
                      /\ s.author = NoAuthor
                      /\ s.url = <<"https://twitter.com/", "twitter", "/status/", t.id>>
                /\ EndsWith(s.url, <<t.id>>)

C10_Witness ==
    /\ Normalized /\ tool = "get_tweet_by_id"
    /\ PostsIn[1].author_id = "u1" /\ Len(UsersIn) = 2
    /\ PostsOut[1].url = <<"https://twitter.com/", "jack", "/status/", "123">>

(***************************************************************************)
(* Startup.                                                                *)
(***************************************************************************)
DefaultPortNumber == 3000

\* the PORT values that denote a positive integer, each with the integer;
\* "80.0", " 80 " and "0080" are numerals of 80
PositivePorts ==
    {<<<<"8", "0", "8", "0">>, 8080>>, <<<<"8", "0", ".", "0">>, 80>>,
     <<<<" ", "8", "0", " ">>, 80>>, <<<<"0", "0", "8", "0">>, 80>>}

PortFine(p) == p = Unset \/ \E pp \in PositivePorts : pp[1] = p
Present(value) == value # Undef /\ value # ""

\* the variable a startup error may blame, and whether it is at fault
AtFault(name) ==
    CASE name = "PORT" -> ~PortFine(env.PORT)
      [] name = "TWITTER_BEARER_TOKEN" -> ~Present(env.TOKEN)
      [] name = "MCP_SERVER_API_KEY" -> ~Present(env.KEY)

\* C11: in the strict build the startup succeeds exactly when PORT is unset
\* or denotes a positive integer and TWITTER_BEARER_TOKEN and
\* MCP_SERVER_API_KEY are present and non-empty; the port is 3000 when PORT
\* is unset, otherwise the integer PORT denotes; a failed startup ends with
\* an error naming a variable that is at fault, and the server does not listen.
C11_ConfigValidated ==
    (variant = "strict" /\ phase # "boot") =>
        /\ phase = "listening" <=>
                (PortFine(env.PORT) /\ Present(env.TOKEN) /\ Present(env.KEY))
        /\ phase = "listening" =>
                /\ env.PORT = Unset => port = DefaultPortNumber
                /\ \A pp \in PositivePorts : pp[1] = env.PORT => port = pp[2]
                /\ startupError = <<>>
        /\ phase # "listening" =>
                /\ phase = "exited"
                /\ \E name \in {"PORT", "TWITTER_BEARER_TOKEN", "MCP_SERVER_API_KEY"} :
                        Includes(startupError, <<name>>) /\ AtFault(name)

\* a startup refused for a PORT of "0", and one refused for a missing key
C11_Witness ==
    /\ variant = "strict"
    /\ phase = "exited"
    /\ \/ env.PORT = <<"0">> /\ Includes(startupError, <<"PORT">>)
       \/ PortFine(env.PORT) /\ Present(env.TOKEN) /\ env.KEY = ""
            /\ Includes(startupError, <<"MCP_SERVER_API_KEY">>)

(***************************************************************************)
(* The client's treatment of upstream responses.                           *)
(***************************************************************************)
\* C12: every upstream outcome with a non-success status, a body that is not
\* valid JSON (2xx included) or a body carrying an upstream error object makes
\* the client operation fail; none is returned to the handler as a value.
C12_UpstreamFailuresFail ==
    \A k \in 1..Len(replies) :
        Failed(replies[k]) => ~ClientOutcome(variant, replies[k]).ok

\* the most specific message an upstream response offers
MostSpecific(r) ==
    IF r.body = "json" /\ r.shape # "none" /\ r.detail # <<>> THEN r.detail
    ELSE IF r.body = "json" /\ r.shape # "none" /\ r.title # <<>> THEN r.title
    ELSE RawBody(r)

\* C13: for a non-success upstream HTTP response the client's error message
\* contains the HTTP status and the most specific upstream message: the
\* error's detail, else its title, else the raw text of the body (builds
\* with buildErrorMessage or twitterRequest).
C13_ErrorMessageMostSpecific ==
    variant \in {"loose", "legacy"} =>
        \A k \in 1..Len(replies) :
            LET r == replies[k]
                outcome == ClientOutcome(variant, r)
            IN  (r # Unreachable /\ ~Ok(r.status)) =>
                    /\ ~outcome.ok
                    /\ Includes(outcome.err, Digits(r.status))
                    /\ Includes(outcome.err, MostSpecific(r))

\* C14: the max_results of every search-tweets, user-tweets or search-users
\* request sent upstream lies in the declared bounds ([1,50]; [1,25] for
\* search-users) and is the caller's value, or 10 when the caller gave none.
C14_LimitSentUnchanged ==
    \A k \in 1..Len(calls) :
        calls[k].ep \in {"search", "tweets", "usersearch"} =>
            /\ calls[k].max >= 1
            /\ calls[k].max <= IF calls[k].ep = "usersearch" THEN 25 ELSE 50
            /\ calls[k].max = IF args.limit = NoLimit THEN 10 ELSE args.limit[2]

\* C17: the loose build answers with the rate-limit message only when the
\* upstream response that failed the call had status 429; a failure with any
\* other status, whatever its detail text, keeps its own message.
C17_RateLimitOnlyFor429 ==
    (variant = "loose" /\ pc = "done" /\ result = textContent(RateLimitMessage)) =>
        /\ replies # <<>>
        /\ replies[Len(replies)].status = 429

\* C18: every request goes to the configured base URL with the endpoint path
\* appended, so the whole base URL, path prefix included, is a prefix of the
\* request URL; with no override the base URL is the production one.
C18_BaseUrlIsPrefix ==
    /\ env.BASE = Unset => baseUrl = ProductionUrl
    /\ \A k \in 1..Len(calls) :
           RequestUrl(variant, baseUrl, calls[k]) = baseUrl \o EndpointPath(calls[k])

(***************************************************************************)
(* The transport.                                                          *)
(***************************************************************************)
\* C15: the McpServer is connected to the transport made at startup, and no
\* request, the one followed or another in flight beside it, changes,
\* replaces or closes that binding.
C15_BindingFixed == binding = "startup"

\* C16: a POST /mcp that passed the gate gets its response started exactly
\* once: a handleRequest failure after the response began is not followed by
\* a second response, and one before it is answered 500 with code -32000.
C16_ResponseStartedOnce ==
    (handled /\ pc = "done") =>
        /\ res # NoResponse
        /\ overwrites = 0
        /\ failure = "early" => (res.status = 500 /\ res.code = -32000)

====
